---- MODULE Spec2Model ----
(***************************************************************************)
(* A model of _pytime_windows.py: the pure-Python `time` module built on   *)
(* kernel32 calls.  The calendar conversion (localtime, mktime), the       *)
(* struct_time entity, strftime, get_clock_info, the monotonic clock and   *)
(* sleep are modelled as the code computes them; the operating system      *)
(* (time-zone configuration, performance counter, waitable timer) is the   *)
(* environment.                                                            *)
(*                                                                         *)
(* Integers are TLC's 32-bit integers, so second counts stay below 2^31    *)
(* (dates up to 2038).  Python's // and % are floor division and the       *)
(* non-negative remainder, as \div and % are here.                         *)
(***************************************************************************)
EXTENDS Integers, Sequences, FiniteSets, TLC

VARIABLES
    osTz,          \* the time-zone configuration the OS reports now
    _tzi,          \* the module-level TIME_ZONE_INFORMATION buffer
    altzone,       \* module attribute, computed when the module is loaded
    daylight,      \* module attribute, computed when the module is loaded
    timezone,      \* module attribute, computed when the module is loaded
    lastOp,        \* the calendar call made last
    seconds,       \* the second count the caller passes to localtime
    tm,            \* struct_time returned by the last localtime call
    mkArg,         \* struct_time passed to the last mktime call
    mkRet,         \* value returned by the last mktime call
    offset_sec,    \* the offset the last mktime call added
    cmpOp,         \* the comparison made last: "eq" (==) or "lt" (<)
    cmpA,          \* its left struct_time
    cmpB,          \* its right struct_time
    cmpRet,        \* its result
    fmtOp,         \* "strftime" once strftime has been called
    format,        \* the format string the caller passes to strftime
    fmtTuple,      \* the struct_time the caller passes to strftime
    fmtRet,        \* string returned by the strftime call
    ciOp,          \* "get_clock_info" once get_clock_info has been called
    ciName,        \* the name the caller passes to get_clock_info
    ciRet,         \* what the get_clock_info call returned or raised
    _frequency,    \* QueryPerformanceFrequency, read when the module is loaded
    osCounter,     \* the performance counter of the OS
    mpc,           \* per thread: where it is in monotonic_ns
    mctr,          \* per thread: counter.value read by QueryPerformanceCounter
    mret,          \* per thread: <<v>> once monotonic_ns returned v, else <<>>
    mfloor,        \* per thread: maxRet when its monotonic_ns call started
    maxRet,        \* <<v>>, v the greatest value monotonic_ns returned so far
    now,           \* the time of the OS, in 100 ns units
    hTimer,        \* the waitable timer created when the module is loaded
    spc,           \* per thread: where it is in sleep
    sarg,          \* per thread: the seconds argument of its sleep call
    sli,           \* per thread: li.QuadPart
    arms,          \* per thread: SetWaitableTimer calls made by its sleep call
    waits,         \* per thread: WaitForSingleObject calls that returned
    yields,        \* per thread: Sleep(0) calls made by its sleep call
    due,           \* per thread: the time its own arming asked for
    woke,          \* per thread: <<time>> once its wait returned 0
    overlap        \* per thread: another thread was inside sleep(d != 0)
                   \* at some time during its own sleep call

calVars == <<osTz, _tzi, altzone, daylight, timezone, lastOp, seconds, tm,
             mkArg, mkRet, offset_sec>>

entVars == <<cmpOp, cmpA, cmpB, cmpRet>>

fmtVars == <<fmtOp, format, fmtTuple, fmtRet>>

infoVars == <<ciOp, ciName, ciRet>>

monoVars == <<_frequency, osCounter, mpc, mctr, mret, mfloor, maxRet>>

sleepVars == <<now, hTimer, spc, sarg, sli, arms, waits, yields, due, woke,
               overlap>>

vars == <<calVars, entVars, fmtVars, infoVars, monoVars, sleepVars>>

\* What an operation of one component leaves alone.
exceptCal == <<entVars, fmtVars, infoVars, monoVars, sleepVars>>

exceptEnt == <<calVars, fmtVars, infoVars, monoVars, sleepVars>>

exceptFmt == <<calVars, entVars, infoVars, monoVars, sleepVars>>

exceptInfo == <<calVars, entVars, fmtVars, monoVars, sleepVars>>

exceptMono == <<calVars, entVars, fmtVars, infoVars, sleepVars>>

exceptSleep == <<calVars, entVars, fmtVars, infoVars, monoVars>>

None == "None"

(***************************************************************************)
(* Bounds of the model.                                                    *)
(***************************************************************************)
\* localtime is called on every day 0..MaxDay after the epoch ...
MaxDay == 800
\* ... and on every day -MaxNegDay..-1 before it.
MaxNegDay == 40
\* strftime is called on every format string of at most MaxFmtLen characters
\* over FmtAlphabet.
MaxFmtLen == 3
\* get_clock_info is called on every name of at most MaxNameLen characters
\* over NameAlphabet.
MaxNameLen == 4
\* The performance counter of the OS counts up to MaxCounter.
MaxCounter == 6
\* The time of the OS runs from 0 to MaxNow, in 100 ns units.
MaxNow == 5

(***************************************************************************)
(* Calendar Math                                                           *)
(***************************************************************************)
Bool2Int(b) == IF b THEN 1 ELSE 0

\* _is_leap as it would be without the `or year % 400 == 0` clause.
_is_leap_No400(year) == year % 4 = 0 /\ year % 100 # 0

_is_leap(year) == (year % 4 = 0 /\ year % 100 # 0) \/ (year % 400 = 0)

_month_days == <<31, 28, 31, 30, 31, 30, 31, 31, 30, 31, 30, 31>>

\* mdays = _month_days.copy(); if _is_leap(year): mdays[1] = 29
PatchedMonthDays(year) ==
    IF _is_leap(year) THEN [_month_days EXCEPT ![2] = 29] ELSE _month_days

\* Python's lst[:k] on a list: a negative k counts from the end, and both
\* ends are clipped to the list.
SlicePrefix(lst, k) ==
    LET n == IF k < 0
             THEN (IF Len(lst) + k < 0 THEN 0 ELSE Len(lst) + k)
             ELSE (IF k > Len(lst) THEN Len(lst) ELSE k)
    IN  SubSeq(lst, 1, n)

RECURSIVE sum(_)
sum(lst) == IF lst = <<>> THEN 0 ELSE Head(lst) + sum(Tail(lst))

\* Python's lst[i] for a list index that may be negative (t[month-1]).
PyIndex(lst, i) == IF i < 0 THEN lst[Len(lst) + i + 1] ELSE lst[i + 1]

\* _calc_weekday as it would be returning w itself (0 = Sunday).
_calc_weekday_SundayZero(year, month, day) ==
    LET t == <<0, 3, 2, 5, 0, 3, 5, 1, 4, 6, 2, 4>>
        y == year - Bool2Int(month < 3)
    IN  (y + (y \div 4) - (y \div 100) + (y \div 400)
           + PyIndex(t, month - 1) + day) % 7

_calc_weekday(year, month, day) ==
    LET t == <<0, 3, 2, 5, 0, 3, 5, 1, 4, 6, 2, 4>>
        y == year - Bool2Int(month < 3)
        w == (y + (y \div 4) - (y \div 100) + (y \div 400)
                + PyIndex(t, month - 1) + day) % 7
    IN  (w - 1) % 7

_calc_yday(year, month, day) ==
    day + sum(SlicePrefix(PatchedMonthDays(year), month - 1))

\* The struct_time class: a tuple subclass whose __new__ calls
\* tuple.__new__(cls) with no items, so the tuple part is empty, and then
\* stores the nine values of args[0] as attributes.
struct_time(args) ==
    [items    |-> <<>>,
     tm_year  |-> args[1], tm_mon  |-> args[2], tm_mday  |-> args[3],
     tm_hour  |-> args[4], tm_min  |-> args[5], tm_sec   |-> args[6],
     tm_wday  |-> args[7], tm_yday |-> args[8], tm_isdst |-> args[9]]

\* The while loop of localtime: walk whole years forward from `year`.
RECURSIVE YearWalk(_, _)
YearWalk(year, days) ==
    LET year_days == IF _is_leap(year) THEN 366 ELSE 365
    IN  IF days >= year_days
        THEN YearWalk(year + 1, days - year_days)
        ELSE <<year, days>>

\* The for loop of localtime over mdays, from list position i (1-based).
RECURSIVE MonthWalk(_, _, _, _)
MonthWalk(mdays, i, month, days) ==
    IF i > Len(mdays) THEN <<month, days>>
    ELSE IF days + 1 > mdays[i]
         THEN MonthWalk(mdays, i + 1, month + 1, days - mdays[i])
         ELSE <<month, days>>

\* localtime(seconds) for seconds that is not None.
localtime(secs) ==
    LET second == secs % 60
        s1     == secs \div 60
        minute == s1 % 60
        s2     == s1 \div 60
        hour   == s2 % 24
        days0  == s2 \div 24
        yw     == YearWalk(1970, days0)
        year   == yw[1]
        mw     == MonthWalk(PatchedMonthDays(year), 1, 1, yw[2])
        month  == mw[1]
        day    == mw[2] + 1
    IN  struct_time(<<year, month, day, hour, minute, second,
                      _calc_weekday(year, month, day),
                      _calc_yday(year, month, day), 0>>)

\* for y in range(1970, year): days += 366 if _is_leap(y) else 365
RECURSIVE YearDays(_, _)
YearDays(y, year) ==
    IF y >= year THEN 0
    ELSE (IF _is_leap(y) THEN 366 ELSE 365) + YearDays(y + 1, year)

\* local_secs of mktime as it would be without the leap patch of mdays.
LocalSecs_NoLeapPatch(tuple) ==
    LET days == YearDays(1970, tuple.tm_year)
                + sum(SlicePrefix(_month_days, tuple.tm_mon - 1))
                + (tuple.tm_mday - 1)
    IN  days * 86400 + tuple.tm_hour * 3600 + tuple.tm_min * 60 + tuple.tm_sec

\* local_secs of mktime: the seconds of the tuple read as a UTC date.
LocalSecs(tuple) ==
    LET days == YearDays(1970, tuple.tm_year)
                + sum(SlicePrefix(PatchedMonthDays(tuple.tm_year),
                                  tuple.tm_mon - 1))
                + (tuple.tm_mday - 1)
    IN  days * 86400 + tuple.tm_hour * 3600 + tuple.tm_min * 60 + tuple.tm_sec

(***************************************************************************)
(* Time-zone state                                                         *)
(***************************************************************************)
\* _get_local_utc_offset_seconds as it would be without its
\* GetTimeZoneInformation call: the buffer keeps what the last call stored.
GetTimeZoneInformation_Skipped(os) == _tzi

\* GetTimeZoneInformation(byref(_tzi)) in _get_local_utc_offset_seconds:
\* the buffer now holds what the OS reports at the moment of the call.
GetTimeZoneInformation(os) == os

\* _get_local_utc_offset_seconds(isdst_flag), called while the OS reports
\* os: the refreshed buffer and the value returned.
_get_local_utc_offset_seconds(os, isdst_flag) ==
    LET tzi  == GetTimeZoneInformation(os)
        bias == IF isdst_flag > 0 THEN tzi.Bias + tzi.DaylightBias
                ELSE tzi.Bias
    IN  [tzi |-> tzi, ret |-> bias * 60]

\* altzone = (_tzi.Bias + _tzi.DaylightBias) * 60
AltzoneOf(tzi) == (tzi.Bias + tzi.DaylightBias) * 60

\* daylight = int(any([wMonth, wDay, wDayOfWeek, wHour, wMinute, wSecond,
\*                     wMilliseconds])) of _tzi.DaylightDate
DaylightOf(tzi) ==
    LET dd == tzi.DaylightDate
    IN  Bool2Int(dd.wMonth # 0 \/ dd.wDay # 0 \/ dd.wDayOfWeek # 0
                 \/ dd.wHour # 0 \/ dd.wMinute # 0 \/ dd.wSecond # 0
                 \/ dd.wMilliseconds # 0)

\* mktime(tuple), called while the OS reports os.
mktime(os, tuple) ==
    LET off == _get_local_utc_offset_seconds(os, tuple.tm_isdst)
    IN  [tzi |-> off.tzi, offset_sec |-> off.ret,
         ret |-> LocalSecs(tuple) + off.ret]

SysTime(y, mo, dow, d, h) ==
    [wYear |-> y, wMonth |-> mo, wDayOfWeek |-> dow, wDay |-> d, wHour |-> h,
     wMinute |-> 0, wSecond |-> 0, wMilliseconds |-> 0]

\* The configurations the OS can report: UTC, US Pacific (daylight saving
\* from the second Sunday of March) and China (no daylight saving).
TzConfigs ==
    { [Bias |-> 0,    DaylightBias |-> 0,   DaylightDate |-> SysTime(0, 0, 0, 0, 0)],
      [Bias |-> 480,  DaylightBias |-> -60, DaylightDate |-> SysTime(0, 3, 0, 2, 2)],
      [Bias |-> -480, DaylightBias |-> 0,   DaylightDate |-> SysTime(0, 0, 0, 0, 0)] }

(***************************************************************************)
(* Inputs of the calendar operations                                       *)
(***************************************************************************)
LeapsBefore(y) == ((y - 1) \div 4) - ((y - 1) \div 100) + ((y - 1) \div 400)

\* Days from 1970-01-01 to January 1 of year y, in closed form.
DaysBeforeYear(y) == 365 * (y - 1970) + LeapsBefore(y) - LeapsBefore(1970)

\* Days around the end of February and the end of the year, in a year
\* divisible by 400, a common year, a leap year and the last whole year
\* before 2^31 seconds.
BoundaryDays ==
    { DaysBeforeYear(y) + k : y \in {2000, 2023, 2024, 2037},
                              k \in {0, 58, 59, 60, 364, 365} }

Days == (0 .. MaxDay) \cup BoundaryDays \cup ((0 - MaxNegDay) .. -1)

TimesOfDay == {0, 3661, 86399}

SecondsInputs == { d * 86400 + t : d \in Days, t \in TimesOfDay }

\* The second counts used where the time zone changes under the calls.
TzSecondsInputs ==
    { d * 86400 + t : d \in {0, 59, MaxDay}, t \in {0, 86399} }

\* The DST flags a caller puts in the tuple it passes to mktime.
DstFlags == {-1, 0, 1, 2}

(***************************************************************************)
(* Module load                                                             *)
(***************************************************************************)
\* Lines 65-67, 108-110 and 612 run once, when the module is imported:
\* the first GetTimeZoneInformation call fills _tzi from the OS.
LoadTz(C) ==
    /\ osTz \in C
    /\ _tzi = osTz
    /\ altzone = AltzoneOf(_tzi)
    /\ daylight = DaylightOf(_tzi)
    /\ timezone = _get_local_utc_offset_seconds(osTz, 0).ret

CalIdle ==
    /\ lastOp = None
    /\ tm = None
    /\ mkArg = None
    /\ mkRet = None
    /\ offset_sec = None

\* The threads of the process.
Threads == {"t1", "t2"}

\* The values QueryPerformanceFrequency can report (ticks per second),
\* small enough for a nanosecond count of a few seconds to stay below 2^31.
Frequencies == {4, 10}

\* Lines 295-299: the frequency is read once; no thread is inside
\* monotonic_ns.
LoadClock(F) ==
    /\ _frequency \in F
    /\ osCounter = 0
    /\ mpc = [t \in Threads |-> "idle"]
    /\ mctr = [t \in Threads |-> 0]
    /\ mret = [t \in Threads |-> <<>>]
    /\ mfloor = [t \in Threads |-> <<>>]
    /\ maxRet = <<>>

\* Lines 426-434: the timer exists, is not set and is not signalled; no
\* thread is inside sleep.
LoadTimer ==
    /\ now = 0
    /\ hTimer = [armed |-> FALSE, dueAt |-> 0, signalled |-> FALSE]
    /\ spc = [t \in Threads |-> "idle"]
    /\ sarg = [t \in Threads |-> <<0, 1>>]
    /\ sli = [t \in Threads |-> 0]
    /\ arms = [t \in Threads |-> 0]
    /\ waits = [t \in Threads |-> 0]
    /\ yields = [t \in Threads |-> 0]
    /\ due = [t \in Threads |-> 0]
    /\ woke = [t \in Threads |-> <<>>]
    /\ overlap = [t \in Threads |-> FALSE]

\* No comparison, strftime or get_clock_info call has been made.
EntIdle == cmpOp = None /\ cmpA = None /\ cmpB = None /\ cmpRet = None

FmtIdle == fmtOp = None /\ format = <<>> /\ fmtTuple = None /\ fmtRet = None

InfoIdle == ciOp = None /\ ciName = <<>> /\ ciRet = None

Init ==
    /\ LoadTz(TzConfigs)
    /\ CalIdle
    /\ seconds \in SecondsInputs
    /\ EntIdle /\ FmtIdle /\ InfoIdle
    /\ LoadClock({10}) /\ LoadTimer

InitTz ==
    /\ LoadTz(TzConfigs)
    /\ CalIdle
    /\ seconds \in TzSecondsInputs
    /\ EntIdle /\ FmtIdle /\ InfoIdle
    /\ LoadClock({10}) /\ LoadTimer

\* The calendar state of the specifications that make no calendar call.
CalQuiet ==
    /\ LoadTz({[Bias |-> 0, DaylightBias |-> 0,
                DaylightDate |-> SysTime(0, 0, 0, 0, 0)]})
    /\ CalIdle
    /\ seconds = 0

(***************************************************************************)
(* Calendar operations                                                     *)
(***************************************************************************)
\* tm = localtime(seconds)
Localtime ==
    /\ lastOp' = "localtime"
    /\ tm' = localtime(seconds)
    /\ mkArg' = None
    /\ mkRet' = None
    /\ offset_sec' = None
    /\ UNCHANGED <<osTz, _tzi, altzone, daylight, timezone, seconds>>
    /\ UNCHANGED exceptCal

\* mktime(tuple) for a tuple the caller holds.
MktimeOf(tuple) ==
    /\ LET r == mktime(osTz, tuple)
       IN  /\ _tzi' = r.tzi
           /\ offset_sec' = r.offset_sec
           /\ mkRet' = r.ret
    /\ mkArg' = tuple
    /\ lastOp' = "mktime"
    /\ UNCHANGED <<osTz, altzone, daylight, timezone, seconds, tm>>
    /\ UNCHANGED exceptCal

\* mktime(tm): the round trip mktime(localtime(seconds)).
MktimeLocaltime ==
    /\ lastOp # None
    /\ MktimeOf(tm)

\* mktime of the last localtime result with the DST flag replaced, as a
\* caller that knows whether daylight saving applies passes it.
MktimeFlagged(flag) ==
    /\ lastOp # None
    /\ MktimeOf(struct_time(<<tm.tm_year, tm.tm_mon, tm.tm_mday, tm.tm_hour,
                              tm.tm_min, tm.tm_sec, tm.tm_wday, tm.tm_yday,
                              flag>>))

\* The user or the OS changes the time-zone configuration.
OsTzChange(c) ==
    /\ c # osTz
    /\ osTz' = c
    /\ UNCHANGED <<_tzi, altzone, daylight, timezone, lastOp, seconds, tm,
                   mkArg, mkRet, offset_sec>>
    /\ UNCHANGED exceptCal

Next ==
    \/ Localtime
    \/ MktimeLocaltime
    \/ \E c \in TzConfigs : OsTzChange(c)

Spec == Init /\ [][Next]_vars

NextTz ==
    \/ Localtime
    \/ \E flag \in DstFlags : MktimeFlagged(flag)
    \/ \E c \in TzConfigs : OsTzChange(c)

SpecTz == InitTz /\ [][NextTz]_vars

(***************************************************************************)
(* The struct_time entity: comparison                                      *)
(***************************************************************************)
\* tuple.__eq__ and tuple.__lt__ compare the items of two tuples in order;
\* when one is a prefix of the other the shorter is the smaller.
tuple_eq(x, y) == x = y

RECURSIVE tuple_lt(_, _)
tuple_lt(x, y) ==
    IF x = <<>> THEN y # <<>>
    ELSE IF y = <<>> THEN FALSE
    ELSE IF Head(x) # Head(y) THEN Head(x) < Head(y)
    ELSE tuple_lt(Tail(x), Tail(y))

\* struct_time defines neither __eq__ nor __lt__: a == b and a < b are the
\* tuple comparisons of the tuple parts of a and b.
struct_time_eq(a, b) == tuple_eq(a.items, b.items)

struct_time_lt(a, b) == tuple_lt(a.items, b.items)

\* 1998-06-06 16:26:11, a Saturday, and the 9-tuples that differ from it in
\* one field by one.
BaseTuple == <<1998, 6, 6, 16, 26, 11, 5, 157, 0>>

NineTuples ==
    {BaseTuple} \cup { [BaseTuple EXCEPT ![i] = @ + k] : i \in 1 .. 9, k \in {-1, 1} }

InitEntity ==
    /\ CalQuiet
    /\ EntIdle /\ FmtIdle /\ InfoIdle
    /\ LoadClock({10}) /\ LoadTimer

\* struct_time(a) == struct_time(b)
EqCall(a, b) ==
    /\ cmpOp' = "eq"
    /\ cmpA' = struct_time(a)
    /\ cmpB' = struct_time(b)
    /\ cmpRet' = struct_time_eq(struct_time(a), struct_time(b))
    /\ UNCHANGED exceptEnt

\* struct_time(a) < struct_time(b)
LtCall(a, b) ==
    /\ cmpOp' = "lt"
    /\ cmpA' = struct_time(a)
    /\ cmpB' = struct_time(b)
    /\ cmpRet' = struct_time_lt(struct_time(a), struct_time(b))
    /\ UNCHANGED exceptEnt

NextEntity ==
    \/ \E a \in NineTuples, b \in NineTuples : EqCall(a, b)
    \/ \E a \in NineTuples, b \in NineTuples : LtCall(a, b)

SpecEntity == InitEntity /\ [][NextEntity]_vars

(***************************************************************************)
(* Formatting Engine.  A Python string is the sequence of its characters.  *)
(***************************************************************************)
_weekdays ==
    <<<<"M", "o", "n">>,
      <<"T", "u", "e">>,
      <<"W", "e", "d">>,
      <<"T", "h", "u">>,
      <<"F", "r", "i">>,
      <<"S", "a", "t">>,
      <<"S", "u", "n">>>>

_weekdays_full ==
    <<<<"M", "o", "n", "d", "a", "y">>,
      <<"T", "u", "e", "s", "d", "a", "y">>,
      <<"W", "e", "d", "n", "e", "s", "d", "a", "y">>,
      <<"T", "h", "u", "r", "s", "d", "a", "y">>,
      <<"F", "r", "i", "d", "a", "y">>,
      <<"S", "a", "t", "u", "r", "d", "a", "y">>,
      <<"S", "u", "n", "d", "a", "y">>>>

_months ==
    <<<<"J", "a", "n">>,
      <<"F", "e", "b">>,
      <<"M", "a", "r">>,
      <<"A", "p", "r">>,
      <<"M", "a", "y">>,
      <<"J", "u", "n">>,
      <<"J", "u", "l">>,
      <<"A", "u", "g">>,
      <<"S", "e", "p">>,
      <<"O", "c", "t">>,
      <<"N", "o", "v">>,
      <<"D", "e", "c">>>>

_months_full ==
    <<<<"J", "a", "n", "u", "a", "r", "y">>,
      <<"F", "e", "b", "r", "u", "a", "r", "y">>,
      <<"M", "a", "r", "c", "h">>,
      <<"A", "p", "r", "i", "l">>,
      <<"M", "a", "y">>,
      <<"J", "u", "n", "e">>,
      <<"J", "u", "l", "y">>,
      <<"A", "u", "g", "u", "s", "t">>,
      <<"S", "e", "p", "t", "e", "m", "b", "e", "r">>,
      <<"O", "c", "t", "o", "b", "e", "r">>,
      <<"N", "o", "v", "e", "m", "b", "e", "r">>,
      <<"D", "e", "c", "e", "m", "b", "e", "r">>>>

Digits == <<"0", "1", "2", "3", "4", "5", "6", "7", "8", "9">>

\* The decimal digits of n >= 0, most significant first.
RECURSIVE DigitsOf(_)
DigitsOf(n) ==
    IF n < 10 THEN <<Digits[n + 1]>>
    ELSE DigitsOf(n \div 10) \o <<Digits[(n % 10) + 1]>>

\* str(n) for an int n.
str(n) == IF n < 0 THEN <<"-">> \o DigitsOf(0 - n) ELSE DigitsOf(n)

RECURSIVE Zeros(_)
Zeros(k) == IF k <= 0 THEN <<>> ELSE <<"0">> \o Zeros(k - 1)

\* st.zfill(width): zeros are added on the left, after a leading sign.
zfill(st, width) ==
    IF Len(st) >= width THEN st
    ELSE IF st # <<>> /\ Head(st) \in {"+", "-"}
         THEN <<Head(st)>> \o Zeros(width - Len(st)) \o Tail(st)
         ELSE Zeros(width - Len(st)) \o st

_zero(n, width) == zfill(str(n), width)

_yday(t) == zfill(str(t.tm_yday), 3)

\* The keys of _strtime_handlers.
HandlerCodes ==
    {"Y", "y", "m", "d", "H", "M", "S", "a", "A", "b", "B", "w", "j", "%"}

\* _strtime_handlers[code](t) for a code in HandlerCodes.
_strtime_handlers(code, t) ==
    CASE code = "Y" -> str(t.tm_year)
      [] code = "y" -> _zero(t.tm_year % 100, 2)
      [] code = "m" -> _zero(t.tm_mon, 2)
      [] code = "d" -> _zero(t.tm_mday, 2)
      [] code = "H" -> _zero(t.tm_hour, 2)
      [] code = "M" -> _zero(t.tm_min, 2)
      [] code = "S" -> _zero(t.tm_sec, 2)
      [] code = "a" -> PyIndex(_weekdays, t.tm_wday)
      [] code = "A" -> PyIndex(_weekdays_full, t.tm_wday)
      [] code = "b" -> PyIndex(_months, t.tm_mon - 1)
      [] code = "B" -> PyIndex(_months_full, t.tm_mon - 1)
      [] code = "w" -> str(t.tm_wday)
      [] code = "j" -> _yday(t)
      [] code = "%" -> <<"%">>

\* strftime as it would be stepping over one character after a `%` pair
\* (i += 1), so that the code character is scanned again.
RECURSIVE strftime_loop_StepOne(_, _, _, _)
strftime_loop_StepOne(fmt, t, i, res) ==
    IF ~(i < Len(fmt)) THEN res
    ELSE IF fmt[i + 1] = "%" /\ i + 1 < Len(fmt)
         THEN LET code == fmt[i + 2]
              IN  IF code \in HandlerCodes
                  THEN strftime_loop_StepOne(fmt, t, i + 1,
                                     res \o _strtime_handlers(code, t))
                  ELSE strftime_loop_StepOne(fmt, t, i + 1, res \o <<"%", code>>)
         ELSE strftime_loop_StepOne(fmt, t, i + 1, res \o <<fmt[i + 1]>>)

\* The while loop of strftime from position i (0-based) with the text
\* collected so far in res; ''.join(res) is the concatenation.
RECURSIVE strftime_loop(_, _, _, _)
strftime_loop(fmt, t, i, res) ==
    IF ~(i < Len(fmt)) THEN res
    ELSE IF fmt[i + 1] = "%" /\ i + 1 < Len(fmt)
         THEN LET code == fmt[i + 2]
              IN  IF code \in HandlerCodes
                  THEN strftime_loop(fmt, t, i + 2,
                                     res \o _strtime_handlers(code, t))
                  ELSE strftime_loop(fmt, t, i + 2, res \o <<"%", code>>)
         ELSE strftime_loop(fmt, t, i + 1, res \o <<fmt[i + 1]>>)

strftime(fmt, t) == strftime_loop(fmt, t, 0, <<>>)

\* The characters of the enumerated format strings: the escape, three
\* codes of the table, a code that is not in it and a plain character.
FmtAlphabet == {"%", "Y", "m", "d", "Q", "-"}

RECURSIVE SeqsUpTo(_, _)
SeqsUpTo(S, n) ==
    IF n = 0 THEN {<<>>}
    ELSE LET shorter == SeqsUpTo(S, n - 1)
         IN  shorter \cup { Append(w, c) : w \in shorter, c \in S }

\* "%Y-%m-%d", every code of the table in one string, "100%" and "%d%Q%".
NamedFormats ==
    { <<"%", "Y", "-", "%", "m", "-", "%", "d">>,
      <<"%", "y", "%", "H", "%", "M", "%", "S", "%", "a", "%", "A", "%", "b", "%", "B", "%", "w", "%", "j", "%", "%">>,
      <<"1", "0", "0", "%">>,
      <<"%", "d", "%", "Q", "%">> }

Formats == SeqsUpTo(FmtAlphabet, MaxFmtLen) \cup NamedFormats

\* The entities formatted: 1998-06-06 16:26:11 and the local times of the
\* epoch and of the last second of 2024.
FmtTuples ==
    { struct_time(BaseTuple), localtime(0),
      localtime(DaysBeforeYear(2025) * 86400 - 1) }

InitFormat ==
    /\ CalQuiet
    /\ EntIdle /\ InfoIdle
    /\ LoadClock({10}) /\ LoadTimer
    /\ fmtOp = None
    /\ format \in Formats
    /\ fmtTuple \in FmtTuples
    /\ fmtRet = None

\* fmtRet = strftime(format, fmtTuple)
Strftime ==
    /\ fmtOp' = "strftime"
    /\ fmtRet' = strftime(format, fmtTuple)
    /\ UNCHANGED <<format, fmtTuple>>
    /\ UNCHANGED exceptFmt

NextFormat == Strftime

SpecFormat == InitFormat /\ [][NextFormat]_vars

(***************************************************************************)
(* Clock Info Registry                                                     *)
(***************************************************************************)
UpperCase ==
    <<"A", "B", "C", "D", "E", "F", "G", "H", "I", "J", "K", "L", "M",
      "N", "O", "P", "Q", "R", "S", "T", "U", "V", "W", "X", "Y", "Z">>

LowerCase ==
    <<"a", "b", "c", "d", "e", "f", "g", "h", "i", "j", "k", "l", "m",
      "n", "o", "p", "q", "r", "s", "t", "u", "v", "w", "x", "y", "z">>

\* str.lower() on one ASCII character.
LowerChar(c) ==
    IF \E i \in 1 .. 26 : UpperCase[i] = c
    THEN LowerCase[CHOOSE i \in 1 .. 26 : UpperCase[i] = c]
    ELSE c

\* name.lower()
lower(name) == [i \in 1 .. Len(name) |-> LowerChar(name[i])]

\* types.SimpleNamespace(resolution=..., adjustable=..., implementation=...,
\* monotonic=...); the resolution is the fraction <<numerator, denominator>>
\* of a second.
Namespace(res, adj, impl, mono) ==
    [exc |-> None,
     value |-> <<[resolution |-> res, adjustable |-> adj,
                  implementation |-> impl, monotonic |-> mono]>>]

\* raise ValueError(...): no value is returned.
RaiseValueError == [exc |-> "ValueError", value |-> <<>>]

S_monotonic == <<"m", "o", "n", "o", "t", "o", "n", "i", "c">>

S_perf_counter == <<"p", "e", "r", "f", "_", "c", "o", "u", "n", "t", "e", "r">>

S_process_time == <<"p", "r", "o", "c", "e", "s", "s", "_", "t", "i", "m", "e">>

S_thread_time == <<"t", "h", "r", "e", "a", "d", "_", "t", "i", "m", "e">>

S_time == <<"t", "i", "m", "e">>

\* get_clock_info as it would be accepting only 'monotonic' in its first
\* branch, so that 'perf_counter' is an unknown clock.
get_clock_info_NoPerfCounter(name0, frequency) ==
    LET name == lower(name0)
    IN  IF name = S_monotonic
        THEN Namespace(<<1, frequency>>, FALSE, "QueryPerformanceCounter", TRUE)
        ELSE IF name = S_process_time
        THEN Namespace(<<1, 10000000>>, FALSE, "GetProcessTimes", TRUE)
        ELSE IF name = S_thread_time
        THEN Namespace(<<1, 10000000>>, FALSE, "GetThreadTimes", TRUE)
        ELSE IF name = S_time
        THEN Namespace(<<1, 10000000>>, TRUE, "GetSystemTimeAsFileTime", FALSE)
        ELSE RaiseValueError

\* get_clock_info(name) in a process whose _frequency is frequency.
get_clock_info(name0, frequency) ==
    LET name == lower(name0)
    IN  IF name \in {S_monotonic, S_perf_counter}
        THEN Namespace(<<1, frequency>>, FALSE, "QueryPerformanceCounter", TRUE)
        ELSE IF name = S_process_time
        THEN Namespace(<<1, 10000000>>, FALSE, "GetProcessTimes", TRUE)
        ELSE IF name = S_thread_time
        THEN Namespace(<<1, 10000000>>, FALSE, "GetThreadTimes", TRUE)
        ELSE IF name = S_time
        THEN Namespace(<<1, 10000000>>, TRUE, "GetSystemTimeAsFileTime", FALSE)
        ELSE RaiseValueError

\* The characters of the enumerated names: the letters of "time" in both
\* cases.
NameAlphabet == {"t", "T", "i", "I", "m", "M", "e", "E"}

\* The five clock identifiers, spellings of them in other cases, and names
\* of no clock.
NamedNames ==
    { S_monotonic, S_perf_counter, S_process_time, S_thread_time, S_time,
      <<"M", "O", "N", "O", "T", "O", "N", "I", "C">>,
      <<"M", "o", "n", "o", "t", "o", "n", "i", "c">>,
      <<"P", "e", "r", "f", "_", "C", "o", "u", "n", "t", "e", "r">>,
      <<"P", "R", "O", "C", "E", "S", "S", "_", "T", "I", "M", "E">>,
      <<"T", "h", "r", "e", "a", "d", "_", "T", "i", "m", "e">>,
      <<"b", "o", "g", "u", "s">>,
      <<"c", "l", "o", "c", "k">>,
      <<"t", "i", "m", "e", " ">> }

ClockNames == SeqsUpTo(NameAlphabet, MaxNameLen) \cup NamedNames

InitInfo ==
    /\ CalQuiet
    /\ EntIdle /\ FmtIdle
    /\ LoadClock(Frequencies) /\ LoadTimer
    /\ ciOp = None
    /\ ciName \in ClockNames
    /\ ciRet = None

\* ciRet = get_clock_info(ciName)
GetClockInfo ==
    /\ ciOp' = "get_clock_info"
    /\ ciRet' = get_clock_info(ciName, _frequency)
    /\ UNCHANGED ciName
    /\ UNCHANGED exceptInfo

NextInfo == GetClockInfo

SpecInfo == InitInfo /\ [][NextInfo]_vars

(***************************************************************************)
(* Clock Sources: the monotonic clock.  A float is modelled by the exact   *)
(* fraction it approximates; division, multiplication and int() are all    *)
(* non-decreasing in IEEE arithmetic as they are on fractions.             *)
(***************************************************************************)
\* monotonic(): counter.value / _frequency, as <<numerator, denominator>>.
monotonic(counter, frequency) == <<counter, frequency>>

\* floor(q + r * 10^k / d) for 0 <= r < d, by long division, digit by digit.
RECURSIVE ShiftDivide(_, _, _, _)
ShiftDivide(q, r, d, k) ==
    IF k = 0 THEN q
    ELSE ShiftDivide(q * 10 + ((r * 10) \div d), (r * 10) % d, d, k - 1)

\* int(x * 1_000_000_000) for a fraction x >= 0.
IntTimes1e9(x) == ShiftDivide(x[1] \div x[2], x[1] % x[2], x[2], 9)

\* monotonic_ns as it would be keeping only the part of the counter below
\* one second (counter % frequency).
monotonic_ns_SubSecond(counter, frequency) ==
    IntTimes1e9(monotonic(counter % frequency, frequency))

\* monotonic_ns() when QueryPerformanceCounter stored `counter`.
monotonic_ns(counter, frequency) == IntTimes1e9(monotonic(counter, frequency))

InitMono ==
    /\ CalQuiet
    /\ EntIdle /\ FmtIdle /\ InfoIdle
    /\ LoadClock(Frequencies) /\ LoadTimer

\* Thread t calls monotonic_ns().
MonoCall(t) ==
    /\ mpc[t] \in {"idle", "returned", "raised"}
    /\ mpc' = [mpc EXCEPT ![t] = "query"]
    /\ mret' = [mret EXCEPT ![t] = <<>>]
    /\ mfloor' = [mfloor EXCEPT ![t] = maxRet]
    /\ UNCHANGED <<_frequency, osCounter, mctr, maxRet>>
    /\ UNCHANGED exceptMono

\* QueryPerformanceCounter(byref(counter)) succeeds.
QueryOk(t) ==
    /\ mpc[t] = "query"
    /\ mctr' = [mctr EXCEPT ![t] = osCounter]
    /\ mpc' = [mpc EXCEPT ![t] = "compute"]
    /\ UNCHANGED <<_frequency, osCounter, mret, mfloor, maxRet>>
    /\ UNCHANGED exceptMono

\* QueryPerformanceCounter returns 0: raise OSError.
QueryFail(t) ==
    /\ mpc[t] = "query"
    /\ mpc' = [mpc EXCEPT ![t] = "raised"]
    /\ UNCHANGED <<_frequency, osCounter, mctr, mret, mfloor, maxRet>>
    /\ UNCHANGED exceptMono

\* return int(monotonic() * 1_000_000_000)
MonoReturn(t) ==
    /\ mpc[t] = "compute"
    /\ LET v == monotonic_ns(mctr[t], _frequency)
       IN  /\ mret' = [mret EXCEPT ![t] = <<v>>]
           /\ maxRet' = IF maxRet = <<>> \/ maxRet[1] < v THEN <<v>> ELSE maxRet
    /\ mctr' = [mctr EXCEPT ![t] = 0]
    /\ mpc' = [mpc EXCEPT ![t] = "returned"]
    /\ UNCHANGED <<_frequency, osCounter, mfloor>>
    /\ UNCHANGED exceptMono

\* The performance counter of the OS counts on; it never decreases.
OsCount ==
    /\ osCounter < MaxCounter
    /\ osCounter' = osCounter + 1
    /\ UNCHANGED <<_frequency, mpc, mctr, mret, mfloor, maxRet>>
    /\ UNCHANGED exceptMono

NextMono ==
    \/ \E t \in Threads : MonoCall(t)
    \/ \E t \in Threads : QueryOk(t)
    \/ \E t \in Threads : QueryFail(t)
    \/ \E t \in Threads : MonoReturn(t)
    \/ OsCount

SpecMono == InitMono /\ [][NextMono]_vars

(***************************************************************************)
(* Timer/Sleep Engine.  The seconds argument is the fraction               *)
(* <<numerator, denominator>>; time is counted in the 100 ns units of the  *)
(* timer.                                                                  *)
(***************************************************************************)
\* int(x * 10_000_000) for a fraction x >= 0.
IntTimes1e7(x) == ShiftDivide(x[1] \div x[2], x[1] % x[2], x[2], 7)

\* li.QuadPart as it would be without the minus sign.
QuadPartOf_Positive(secs) == IntTimes1e7(secs)

\* li.QuadPart = -int(seconds * 10_000_000)
QuadPartOf(secs) == 0 - IntTimes1e7(secs)

\* SetWaitableTimer as it would be if a timer that is set kept the earlier
\* of the two due times instead of taking the new one.
SetWaitableTimer_KeepEarlier(li, t0) ==
    LET new == IF li < 0 THEN t0 - li ELSE t0
    IN  [armed |-> TRUE,
         dueAt |-> IF hTimer.armed /\ hTimer.dueAt < new THEN hTimer.dueAt
                   ELSE new,
         signalled |-> FALSE]

\* SetWaitableTimer(hTimer, byref(li), 0, None, None, False) at time t0: a
\* negative due time is relative to t0; any other is an absolute time
\* counted from 1601, which has passed.  Setting the timer resets its
\* signalled state and replaces the due time it had.
SetWaitableTimer(li, t0) ==
    [armed |-> TRUE, dueAt |-> IF li < 0 THEN t0 - li ELSE t0,
     signalled |-> FALSE]

\* 0 s, 1e-8 s (less than one unit), 1e-7 s, 2.5e-7 s and 3e-7 s.
Durations ==
    { <<0, 1>>, <<1, 100000000>>, <<1, 10000000>>, <<25, 100000000>>,
      <<3, 10000000>> }

\* The thread that sleeps where sleep calls do not overlap.
SingleThread == {"t1"}

InitSleep ==
    /\ CalQuiet
    /\ EntIdle /\ FmtIdle /\ InfoIdle
    /\ LoadClock({10}) /\ LoadTimer

\* Thread v is inside sleep, between the computation of li and the return.
InSleep(v) == spc[v] \in {"arm", "wait"}

\* The time a due time li given at time t0 asks for.
RequestedDue(li, t0) == IF li < 0 THEN t0 - li ELSE t0

\* Thread t calls sleep(0): Sleep(0) yields the thread and sleep returns.
SleepZero(t, secs) ==
    /\ spc[t] \in {"idle", "returned", "raised"}
    /\ secs[1] = 0
    /\ sarg' = [sarg EXCEPT ![t] = secs]
    /\ yields' = [yields EXCEPT ![t] = 1]
    /\ arms' = [arms EXCEPT ![t] = 0]
    /\ waits' = [waits EXCEPT ![t] = 0]
    /\ sli' = [sli EXCEPT ![t] = 0]
    /\ due' = [due EXCEPT ![t] = 0]
    /\ woke' = [woke EXCEPT ![t] = <<>>]
    /\ spc' = [spc EXCEPT ![t] = "returned"]
    /\ overlap' = [overlap EXCEPT ![t] = FALSE]
    /\ UNCHANGED <<now, hTimer>>
    /\ UNCHANGED exceptSleep

\* Thread t calls sleep(secs) with secs != 0 and computes li.
SleepStart(t, secs) ==
    /\ spc[t] \in {"idle", "returned", "raised"}
    /\ secs[1] # 0
    /\ sarg' = [sarg EXCEPT ![t] = secs]
    /\ yields' = [yields EXCEPT ![t] = 0]
    /\ arms' = [arms EXCEPT ![t] = 0]
    /\ waits' = [waits EXCEPT ![t] = 0]
    /\ sli' = [sli EXCEPT ![t] = QuadPartOf(secs)]
    /\ due' = [due EXCEPT ![t] = 0]
    /\ woke' = [woke EXCEPT ![t] = <<>>]
    /\ spc' = [spc EXCEPT ![t] = "arm"]
    /\ overlap' = [u \in Threads |->
                      IF u = t THEN \E v \in Threads \ {t} : InSleep(v)
                      ELSE overlap[u] \/ InSleep(u)]
    /\ UNCHANGED <<now, hTimer>>
    /\ UNCHANGED exceptSleep

\* SetWaitableTimer succeeds; the thread goes on to WaitForSingleObject.
SetTimerOk(t) ==
    /\ spc[t] = "arm"
    /\ hTimer' = SetWaitableTimer(sli[t], now)
    /\ due' = [due EXCEPT ![t] = RequestedDue(sli[t], now)]
    /\ arms' = [arms EXCEPT ![t] = @ + 1]
    /\ spc' = [spc EXCEPT ![t] = "wait"]
    /\ UNCHANGED <<now, sarg, sli, waits, yields, woke, overlap>>
    /\ UNCHANGED exceptSleep

\* SetWaitableTimer returns 0: raise WinError.
SetTimerFail(t) ==
    /\ spc[t] = "arm"
    /\ arms' = [arms EXCEPT ![t] = @ + 1]
    /\ spc' = [spc EXCEPT ![t] = "raised"]
    /\ UNCHANGED <<now, hTimer, sarg, sli, waits, yields, due, woke, overlap>>
    /\ UNCHANGED exceptSleep

\* WaitForSingleObject(hTimer, INFINITE) returns 0: the timer is signalled.
\* The timer is a synchronization timer (no manual-reset flag), so the
\* satisfied wait resets it.
WaitSignalled(t) ==
    /\ spc[t] = "wait"
    /\ hTimer.signalled
    /\ hTimer' = [hTimer EXCEPT !.signalled = FALSE]
    /\ waits' = [waits EXCEPT ![t] = @ + 1]
    /\ woke' = [woke EXCEPT ![t] = <<now>>]
    /\ spc' = [spc EXCEPT ![t] = "returned"]
    /\ UNCHANGED <<now, sarg, sli, arms, yields, due, overlap>>
    /\ UNCHANGED exceptSleep

\* WaitForSingleObject returns another value: raise WinError.
WaitFail(t) ==
    /\ spc[t] = "wait"
    /\ waits' = [waits EXCEPT ![t] = @ + 1]
    /\ spc' = [spc EXCEPT ![t] = "raised"]
    /\ UNCHANGED <<now, hTimer, sarg, sli, arms, yields, due, woke, overlap>>
    /\ UNCHANGED exceptSleep

\* The OS signals the timer once its due time has come.
TimerFires ==
    /\ hTimer.armed
    /\ now >= hTimer.dueAt
    /\ hTimer' = [hTimer EXCEPT !.armed = FALSE, !.signalled = TRUE]
    /\ UNCHANGED <<now, spc, sarg, sli, arms, waits, yields, due, woke,
                   overlap>>
    /\ UNCHANGED exceptSleep

\* Time passes.
OsTimePasses ==
    /\ now < MaxNow
    /\ now' = now + 1
    /\ UNCHANGED <<hTimer, spc, sarg, sli, arms, waits, yields, due, woke,
                   overlap>>
    /\ UNCHANGED exceptSleep

NextSleep ==
    \/ \E t \in SingleThread, secs \in Durations : SleepZero(t, secs)
    \/ \E t \in SingleThread, secs \in Durations : SleepStart(t, secs)
    \/ \E t \in SingleThread : SetTimerOk(t)
    \/ \E t \in SingleThread : SetTimerFail(t)
    \/ \E t \in SingleThread : WaitSignalled(t)
    \/ \E t \in SingleThread : WaitFail(t)
    \/ TimerFires
    \/ OsTimePasses

SpecSleep == InitSleep /\ [][NextSleep]_vars

\* Every thread may call sleep, with nothing serialising the calls.
NextSleepMT ==
    \/ \E t \in Threads, secs \in Durations : SleepZero(t, secs)
    \/ \E t \in Threads, secs \in Durations : SleepStart(t, secs)
    \/ \E t \in Threads : SetTimerOk(t)
    \/ \E t \in Threads : SetTimerFail(t)
    \/ \E t \in Threads : WaitSignalled(t)
    \/ \E t \in Threads : WaitFail(t)
    \/ TimerFires
    \/ OsTimePasses

SpecSleepMT == InitSleep /\ [][NextSleepMT]_vars

(***************************************************************************)
(* Independent calendar definitions used to state the claims               *)
(***************************************************************************)
\* Gregorian leap year: divisible by 4 and not by 100, or divisible by 400.
LeapYear(y) == (y % 400 = 0) \/ (y % 4 = 0 /\ ~(y % 100 = 0))

MonthLength(y, m) ==
    CASE m \in {4, 6, 9, 11} -> 30
      [] m = 2 -> IF LeapYear(y) THEN 29 ELSE 28
      [] OTHER -> 31

\* Days from January 1 of year y to the first day of month m.
RECURSIVE DaysBeforeMonth(_, _)
DaysBeforeMonth(y, m) ==
    IF m <= 1 THEN 0 ELSE DaysBeforeMonth(y, m - 1) + MonthLength(y, m - 1)

\* Days from 1970-01-01 to the date y-m-d.
DayNumber(y, m, d) == DaysBeforeYear(y) + DaysBeforeMonth(y, m) + (d - 1)

Called == lastOp \in {"localtime", "mktime"}

RoundTripped == lastOp = "mktime" /\ mkArg = tm

(***************************************************************************)
(* C1: for every integer s >= 0, mktime(localtime(s)) is exactly s plus    *)
(* the offset mktime added, which is 60 times the bias (in minutes) read   *)
(* from the OS by that call since localtime reports the DST flag 0; the    *)
(* round trip gives s back only when that offset is zero.                  *)
(***************************************************************************)
C1_RoundTripOffset ==
    (RoundTripped /\ seconds >= 0) =>
        /\ mkRet = seconds + offset_sec
        /\ offset_sec = 60 * _tzi.Bias
        /\ (mkRet = seconds) <=> (_tzi.Bias = 0)

\* A round trip through a leap day under a nonzero bias.
C1_Witness ==
    /\ RoundTripped
    /\ seconds >= 0
    /\ tm.tm_mon = 2 /\ tm.tm_mday = 29
    /\ offset_sec # 0
    /\ mkRet = seconds + offset_sec

(***************************************************************************)
(* C2: for every integer s >= 0, localtime(s) is a valid Gregorian date:   *)
(* month in 1..12, day in 1..length of the month in that year, so that     *)
(* February 29 appears only in leap years; and the second after            *)
(* 23:59:59 of February 28 is February 29 in a leap year, March 1          *)
(* otherwise.                                                              *)
(***************************************************************************)
C2_ValidDate ==
    (Called /\ seconds >= 0) =>
        /\ tm.tm_mon \in 1 .. 12
        /\ tm.tm_mday \in 1 .. MonthLength(tm.tm_year, tm.tm_mon)
        /\ (tm.tm_mon = 2 /\ tm.tm_mday = 29) => LeapYear(tm.tm_year)
        /\ (tm.tm_mon = 2 /\ tm.tm_mday = 28 /\ tm.tm_hour = 23
               /\ tm.tm_min = 59 /\ tm.tm_sec = 59) =>
              LET nxt == localtime(seconds + 1)
              IN  /\ nxt.tm_year = tm.tm_year
                  /\ nxt.tm_hour = 0 /\ nxt.tm_min = 0 /\ nxt.tm_sec = 0
                  /\ IF LeapYear(tm.tm_year)
                     THEN nxt.tm_mon = 2 /\ nxt.tm_mday = 29
                     ELSE nxt.tm_mon = 3 /\ nxt.tm_mday = 1

\* The last second of February 28 of a leap year has been converted.
C2_Witness ==
    /\ Called
    /\ seconds >= 0
    /\ LeapYear(tm.tm_year)
    /\ tm.tm_mon = 2 /\ tm.tm_mday = 28
    /\ tm.tm_hour = 23 /\ tm.tm_min = 59 /\ tm.tm_sec = 59
    /\ localtime(seconds + 1).tm_mday = 29

(***************************************************************************)
(* C3: for every integer s >= 0, the weekday localtime(s) reports is       *)
(* (3 + floor(s / 86400)) mod 7 (1970-01-01 is a Thursday, Monday is 0)    *)
(* and the day of the year is 1 + the days elapsed since January 1 of the  *)
(* produced year, within 1..366; both agree with the recomputation from    *)
(* the produced year, month and day.                                       *)
(***************************************************************************)
C3_WeekdayYday ==
    (Called /\ seconds >= 0) =>
        LET n == DayNumber(tm.tm_year, tm.tm_mon, tm.tm_mday)
        IN  /\ n = seconds \div 86400
            /\ tm.tm_wday = (3 + (seconds \div 86400)) % 7
            /\ tm.tm_wday = (3 + n) % 7
            /\ tm.tm_yday = 1 + ((seconds \div 86400) - DaysBeforeYear(tm.tm_year))
            /\ tm.tm_yday = 1 + DaysBeforeMonth(tm.tm_year, tm.tm_mon)
                              + (tm.tm_mday - 1)
            /\ tm.tm_yday \in 1 .. 366

\* December 31 of a leap year, day 366, has been converted.
C3_Witness ==
    /\ Called
    /\ seconds >= 0
    /\ tm.tm_yday = 366
    /\ tm.tm_mon = 12 /\ tm.tm_mday = 31
    /\ tm.tm_wday = (3 + (seconds \div 86400)) % 7

(***************************************************************************)
(* C4: localtime returns for every integer second count, and for           *)
(* s <= 0 the result still has month in 1..12, day in 1..31, hour in       *)
(* 0..23, minute and second in 0..59 and day of the year in 1..366.        *)
(***************************************************************************)
C4_NonPositiveInRange ==
    (Called /\ seconds <= 0) =>
        /\ tm.tm_mon \in 1 .. 12
        /\ tm.tm_mday \in 1 .. 31
        /\ tm.tm_hour \in 0 .. 23
        /\ tm.tm_min \in 0 .. 59
        /\ tm.tm_sec \in 0 .. 59
        /\ tm.tm_yday \in 1 .. 366

Fields(e) ==
    <<e.tm_year, e.tm_mon, e.tm_mday, e.tm_hour, e.tm_min, e.tm_sec,
      e.tm_wday, e.tm_yday, e.tm_isdst>>

LexLess(a, b) ==
    \E i \in 1 .. 9 : (\A j \in 1 .. (i - 1) : a[j] = b[j]) /\ a[i] < b[i]

(***************************************************************************)
(* C5: two struct_time values built from 9-tuples a and b are equal iff    *)
(* a = b field by field, and the first is less than the second iff a is    *)
(* lexicographically less than b in the field order year, month, day,      *)
(* hour, minute, second, weekday, day of year, DST flag.                   *)
(***************************************************************************)
C5_LexicographicCompare ==
    /\ (cmpOp = "eq") => (cmpRet <=> (Fields(cmpA) = Fields(cmpB)))
    /\ (cmpOp = "lt") => (cmpRet <=> LexLess(Fields(cmpA), Fields(cmpB)))

TwoDigits(n) == <<Digits[(n \div 10) + 1], Digits[(n % 10) + 1]>>

\* What each code of the table stands for, for a year of four digits.
Rendering(c, e) ==
    CASE c = "Y" -> TwoDigits(e.tm_year \div 100) \o TwoDigits(e.tm_year % 100)
      [] c = "y" -> TwoDigits(e.tm_year % 100)
      [] c = "m" -> TwoDigits(e.tm_mon)
      [] c = "d" -> TwoDigits(e.tm_mday)
      [] c = "H" -> TwoDigits(e.tm_hour)
      [] c = "M" -> TwoDigits(e.tm_min)
      [] c = "S" -> TwoDigits(e.tm_sec)
      [] c = "a" -> SubSeq(_weekdays_full[e.tm_wday + 1], 1, 3)
      [] c = "A" -> _weekdays_full[e.tm_wday + 1]
      [] c = "b" -> SubSeq(_months_full[e.tm_mon], 1, 3)
      [] c = "B" -> _months_full[e.tm_mon]
      [] c = "w" -> <<Digits[e.tm_wday + 1]>>
      [] c = "j" -> <<Digits[(e.tm_yday \div 100) + 1]>> \o TwoDigits(e.tm_yday % 100)
      [] c = "%" -> <<"%">>

TableCodes ==
    {"Y", "y", "m", "d", "H", "M", "S", "a", "A", "b", "B", "w", "j", "%"}

\* The text a format stands for, token by token from the left.
RECURSIVE Formatted(_, _)
Formatted(f, e) ==
    IF f = <<>> THEN <<>>
    ELSE IF Head(f) = "%" /\ Len(f) >= 2
         THEN (IF f[2] \in TableCodes THEN Rendering(f[2], e) ELSE <<"%", f[2]>>)
              \o Formatted(SubSeq(f, 3, Len(f)), e)
         ELSE <<Head(f)>> \o Formatted(Tail(f), e)

Formatting == fmtOp = "strftime"

ClockIds == {S_monotonic, S_perf_counter, S_process_time, S_thread_time, S_time}

InfoCalled == ciOp = "get_clock_info"

Raised == ciRet.exc = "ValueError" /\ ciRet.value = <<>>

Info == ciRet.value[1]

(***************************************************************************)
(* C7, as stated: get_clock_info raises ValueError and returns no metadata *)
(* for every name that is not one of monotonic, perf_counter,              *)
(* process_time, thread_time, time; "monotonic" is reported monotonic and  *)
(* not adjustable, and "time" is the only clock reported adjustable and    *)
(* not monotonic.                                                          *)
(***************************************************************************)
C7_UnknownNameExact ==
    InfoCalled =>
        /\ (ciName \notin ClockIds) => Raised
        /\ (ciName = S_monotonic) =>
              (~Raised /\ Info.monotonic /\ ~Info.adjustable)
        /\ (~Raised) =>
              ((Info.adjustable /\ ~Info.monotonic) <=> (ciName = S_time))

\* a and b are the same up to the case of their ASCII letters.
SameIgnoringCase(a, b) ==
    /\ Len(a) = Len(b)
    /\ \A i \in 1 .. Len(a) :
          \/ a[i] = b[i]
          \/ \E k \in 1 .. 26 : {a[i], b[i]} = {UpperCase[k], LowerCase[k]}

(***************************************************************************)
(* C7, amended: the name is matched without regard to case.                *)
(* get_clock_info raises ValueError and returns no metadata exactly for    *)
(* the names that are none of the five identifiers in any mix of upper     *)
(* and lower case; "monotonic" is reported monotonic and not adjustable,   *)
(* and "time", in any case, is the only clock reported adjustable and not  *)
(* monotonic.                                                              *)
(***************************************************************************)
C7_UnknownNameIgnoringCase ==
    InfoCalled =>
        /\ Raised <=> ~(\E id \in ClockIds : SameIgnoringCase(ciName, id))
        /\ (ciRet.exc = None) <=> (ciRet.value # <<>>)
        /\ (ciName = S_monotonic) =>
              (~Raised /\ Info.monotonic /\ ~Info.adjustable)
        /\ (~Raised) =>
              ((Info.adjustable /\ ~Info.monotonic)
                  <=> SameIgnoringCase(ciName, S_time))

\* A call with a name of a clock in another case has returned metadata.
C7_Witness ==
    /\ InfoCalled
    /\ ciName = <<"T", "i", "m", "E">>
    /\ ~Raised
    /\ Info.adjustable /\ ~Info.monotonic

(***************************************************************************)
(* C8: with a performance counter that never decreases and a frequency     *)
(* read once at module load, a monotonic_ns() call that starts after       *)
(* another one has returned does not return less, on one thread and        *)
(* across the interleavings of several; a call whose counter query fails   *)
(* ends with OSError and returns no value.                                 *)
(***************************************************************************)
C8_MonotonicReads ==
    \A t \in Threads :
        /\ (mpc[t] = "returned") =>
              /\ mret[t] # <<>>
              /\ (mfloor[t] # <<>>) => (mfloor[t][1] <= mret[t][1])
        /\ (mpc[t] = "raised") => (mret[t] = <<>>)

\* Thread t2 started after a read had returned and has returned more,
\* while the query of thread t1 failed.
C8_Witness ==
    /\ mpc["t2"] = "returned"
    /\ mfloor["t2"] # <<>>
    /\ mret["t2"] # <<>>
    /\ mfloor["t2"][1] < mret["t2"][1]
    /\ mpc["t1"] = "raised"
    /\ mret["t1"] = <<>>

(***************************************************************************)
(* C9: on a single thread, sleep(0) yields the thread once, never sets     *)
(* the timer and returns; sleep(d) with d > 0 sets the timer exactly once, *)
(* with the relative due time -int(d * 10^7) hundred-nanosecond units, and *)
(* returns only after the timer so set has been signalled; and a call      *)
(* whose SetWaitableTimer or wait fails ends with an OS error after that   *)
(* one attempt, with no second SetWaitableTimer or wait.                   *)
(***************************************************************************)
C9_SleepProtocol ==
    \A t \in SingleThread :
        /\ arms[t] <= 1 /\ waits[t] <= arms[t]
        /\ (spc[t] = "returned" /\ sarg[t][1] = 0) =>
              (yields[t] = 1 /\ arms[t] = 0 /\ waits[t] = 0)
        /\ (spc[t] = "returned" /\ sarg[t][1] > 0) =>
              /\ yields[t] = 0
              /\ arms[t] = 1 /\ waits[t] = 1
              /\ sli[t] = 0 - ((sarg[t][1] * 10000000) \div sarg[t][2])
              /\ woke[t] # <<>>
              /\ woke[t][1] >= due[t]
              /\ due[t] >= 0 - sli[t]
        /\ (spc[t] = "raised") =>
              /\ yields[t] = 0
              /\ arms[t] = 1
              /\ woke[t] = <<>>

\* sleep(2.5e-7), called after some time had passed, has set the timer to
\* -2 units and returned once the timer had fired.
C9_Witness ==
    /\ spc["t1"] = "returned"
    /\ sarg["t1"] = <<25, 100000000>>
    /\ sli["t1"] = -2
    /\ arms["t1"] = 1
    /\ due["t1"] > 2
    /\ woke["t1"] # <<>>

(***************************************************************************)
(* C11: every sleep call uses the one timer created at module load, and    *)
(* setting it is last-write-wins: a successful SetWaitableTimer leaves the *)
(* timer set to the caller's own due time whatever it was set to before.   *)
(* A sleep(d > 0) that no other sleep call overlaps returns only once its  *)
(* own due time has come; when two threads sleep concurrently the later    *)
(* setting replaces the earlier due time, and a sleeper can be released    *)
(* before the due time it asked for.                                       *)
(***************************************************************************)
C11_LastWriteWins ==
    /\ [](\A t \in Threads :
             (spc[t] = "returned" /\ sarg[t][1] > 0 /\ ~overlap[t]) =>
                 (woke[t] # <<>> /\ woke[t][1] >= due[t]))
    /\ [][\A t \in Threads :
             (spc[t] = "arm" /\ spc'[t] = "wait") =>
                 /\ hTimer'.armed /\ ~hTimer'.signalled
                 /\ hTimer'.dueAt = now - sli[t]
                 /\ hTimer'.dueAt = due'[t]]_vars

\* Thread t1 asked for a later due time than thread t2, whose setting came
\* second and replaced it; t1 has been released before its own due time.
C11_Witness ==
    /\ spc["t1"] = "returned"
    /\ sarg["t1"][1] > 0
    /\ overlap["t1"]
    /\ woke["t1"] # <<>>
    /\ woke["t1"][1] < due["t1"]
    /\ due["t2"] < due["t1"]
    /\ hTimer.dueAt = due["t2"]

====
